---- MODULE Spec2Model ----
(***************************************************************************)
(* A model of src/median.c: the median aggregate's transition state        *)
(* (MedianState), its transition, inverse-transition, combine, final,      *)
(* serialize and deserialize functions.                                    *)
(*                                                                         *)
(* A Datum is modelled by what the 8-byte word stands for:                 *)
(*   [w |-> n]   a pass-by-value word holding the sign-extended int32 n    *)
(*   [p |-> b]   a pointer to a varlena image, b its bytes (header first)  *)
(*   [u |-> 0]   a slot of palloc'd memory that was never written          *)
(***************************************************************************)
EXTENDS Integers, Sequences, FiniteSets, TLC

\* ---------------------------------------------------------------- bounds
MaxAdds == 3        \* most elements one state receives through transfn
MaxSrcAdds == 2     \* most elements the combine source receives
MaxCount == 4       \* most elements a state holds after a combine
MaxGrowAdds == 17   \* most elements of a state whose array is let grow
MaxGrowSrc == 8     \* most elements of a combine source let grow

\* ------------------------------------------------------- program constants
INT4OID == 23
TEXTOID == 25
XIDOID == 28
InitAllocated == 8
SizeofOid == 4
SizeofInt64 == 8
SizeofDatum == 8
SizeofInt32 == 4
MaxInt32 == 2147483647
MinInt32 == (-2147483647) - 1

NULL == [null |-> TRUE]
Uninit == [u |-> 0]

\* elog(ERROR)/ereport(ERROR) messages raised by the functions
TypeResolutionError == "could not identify a comparison function"
InvalidStateError == "median_mtransfn called with NULL state"

\* ------------------------------------------------------------ type registry
\* get_typlenbyvalalign: int4 and xid are 4 bytes by value, text is varlena
typlen(typ) == IF typ = TEXTOID THEN -1 ELSE 4
typbyval(typ) == typ # TEXTOID
\* lookup_type_cache(...)->cmp_proc: xid has no btree comparison procedure
HasCmpProc(typ) == typ \in {INT4OID, TEXTOID}
KnownType(typ) == typ \in {INT4OID, TEXTOID, XIDOID}

\* ----------------------------------------------------- 32-bit arithmetic
\* int32 l + r as compiled (two's complement wrap-around)
WrapAdd32(l, r) ==
    IF l > 0 /\ r > 0 /\ l > MaxInt32 - r
      THEN (l + MinInt32) + (r + MinInt32)
    ELSE IF l < 0 /\ r < 0 /\ l < MinInt32 - r
      THEN (l - MinInt32) + (r - MinInt32)
    ELSE l + r

\* C's s / 2: the quotient truncated toward zero
CDiv2(s) == IF s >= 0 THEN s \div 2 ELSE (s + 1) \div 2

\* ------------------------------------------------------------- comparison
\* VARSIZE_ANY of a short (1-byte header) varlena image
VARSIZE_ANY(b) == (b[1] \div 2) % 128

\* memcmp-style order of two byte sequences, shorter prefix first
RECURSIVE BytesCmp(_, _)
BytesCmp(a, b) ==
    IF a = <<>> /\ b = <<>> THEN 0
    ELSE IF a = <<>> THEN -1
    ELSE IF b = <<>> THEN 1
    ELSE IF Head(a) < Head(b) THEN -1
    ELSE IF Head(a) > Head(b) THEN 1
    ELSE BytesCmp(Tail(a), Tail(b))

\* the type's btree comparison procedure (btint4cmp, bttextcmp with the C
\* collation) called through typentry->cmp_proc_finfo
datum_qsort_compare(typ, da, db) ==
    IF typ = TEXTOID THEN BytesCmp(Tail(da.p), Tail(db.p))
    ELSE IF da.w < db.w THEN -1 ELSE IF da.w > db.w THEN 1 ELSE 0

\* datumIsEqual: the words for a by-value type, size and bytes for a varlena
datumIsEqual(d1, d2, byval) ==
    IF byval THEN d1.w = d2.w
    ELSE VARSIZE_ANY(d1.p) = VARSIZE_ANY(d2.p) /\ d1.p = d2.p

\* qsort_arg over a sequence of datums: insertion into a sorted prefix
RECURSIVE InsertSorted(_, _, _)
InsertSorted(typ, d, s) ==
    IF s = <<>> THEN <<d>>
    ELSE IF datum_qsort_compare(typ, d, Head(s)) <= 0 THEN <<d>> \o s
    ELSE <<Head(s)>> \o InsertSorted(typ, d, Tail(s))

RECURSIVE qsort_arg(_, _)
qsort_arg(typ, s) ==
    IF s = <<>> THEN <<>>
    ELSE InsertSorted(typ, Head(s), qsort_arg(typ, Tail(s)))

\* ----------------------------------------------------------- MedianState
\* the first count slots of the values array
Live(st) == SubSeq(st.values, 1, st.count)

\* variant: the lookup result is returned without the OidIsValid check
GetCmpMutNoCheck(typ) == TRUE

\* get_type_comp_method: TRUE when it returns, FALSE when it raises
get_type_comp_method(typ) == HasCmpProc(typ)

\* init_median_state, after a successful comparison lookup. values_shared
\* tells whether values points to the array of the combine source instead
\* of to an array allocated for this state.
init_median_state(typ) ==
    [inputTypeId |-> typ,
     count |-> 0,
     allocated |-> InitAllocated,
     values |-> [i \in 1..InitAllocated |-> Uninit],
     values_shared |-> FALSE,
     typentry |-> [cmp_proc_finfo |-> TRUE]]

\* variant: the array is doubled one append too late, when count before the
\* append has already passed allocated
AddMutGrowTooLate(st, newVal) ==
    LET c == st.count + 1
        grow == st.count > st.allocated
        alloc == IF grow THEN st.allocated * 2 ELSE st.allocated
        vals == IF grow
                  THEN [i \in 1..alloc |->
                          IF i <= st.allocated THEN st.values[i] ELSE Uninit]
                  ELSE st.values
    IN [st EXCEPT !.count = c,
                  !.allocated = alloc,
                  !.values = [vals EXCEPT ![c] = newVal]]

\* variant: the array is doubled only once count has passed allocated
AddMutGrowLate(st, newVal) ==
    LET c == st.count + 1
        grow == c > st.allocated
        alloc == IF grow THEN st.allocated * 2 ELSE st.allocated
        vals == IF grow
                  THEN [i \in 1..alloc |->
                          IF i <= st.allocated THEN st.values[i] ELSE Uninit]
                  ELSE st.values
    IN [st EXCEPT !.count = c,
                  !.allocated = alloc,
                  !.values = [vals EXCEPT ![c] = newVal]]

add_input_element_median_state(st, newVal) ==
    LET c == st.count + 1
        grow == c > st.allocated - 1
        alloc == IF grow THEN st.allocated * 2 ELSE st.allocated
        vals == IF grow
                  THEN [i \in 1..alloc |->
                          IF i <= st.allocated THEN st.values[i] ELSE Uninit]
                  ELSE st.values
    IN [st EXCEPT !.count = c,
                  !.allocated = alloc,
                  !.values = [vals EXCEPT ![c] = newVal]]

\* index (1-based) of the first live element datumIsEqual to d, 0 if none
FirstMatch(st, d) ==
    LET byval == typbyval(st.inputTypeId)
        hits == {i \in 1..st.count : datumIsEqual(st.values[i], d, byval)}
    IN IF hits = {} THEN 0
       ELSE CHOOSE i \in hits : \A j \in hits : i <= j

\* variant: count is decremented whether or not a match was found
DiscardMutAlways(st, d) ==
    IF st.count > 0 THEN [st EXCEPT !.count = st.count - 1] ELSE st

\* discard_element_median_state: the loop skips the match at k without
\* writing slot k, then for every later i < num_elems - 1 copies slot i + 1
\* into slot i (0-based); count is decremented when a match was found
discard_element_median_state(st, d) ==
    LET n == st.count
        k == FirstMatch(st, d)
    IN IF k = 0 THEN st
       ELSE [st EXCEPT
               !.count = n - 1,
               !.values = [i \in 1..st.allocated |->
                             IF i > k /\ i < n THEN st.values[i + 1]
                             ELSE st.values[i]]]

\* calculate_average for the modelled types: int4 averages in int32, any
\* other type returns left
calculate_average(typ, left, right) ==
    IF typ = INT4OID THEN [w |-> CDiv2(WrapAdd32(left.w, right.w))]
    ELSE left

\* calculate_median over the sorted values
calculate_median(st) ==
    LET midpoint == st.count \div 2
    IN IF st.count % 2 = 0
         THEN calculate_average(st.inputTypeId,
                                st.values[midpoint], st.values[midpoint + 1])
         ELSE st.values[midpoint + 1]

\* the state as median_finalfn leaves it: the live prefix sorted in place
SortedState(st) ==
    LET s == qsort_arg(st.inputTypeId, Live(st))
    IN [st EXCEPT !.values = [i \in 1..st.allocated |->
                                IF i <= st.count THEN s[i] ELSE st.values[i]]]
\* ------------------------------------------------------------ byte codec
\* the 4 bytes of an int32, least significant first (two's complement)
Int32Bytes(v) ==
    LET u == IF v >= 0 THEN v ELSE v - MinInt32
    IN <<u % 256, (u \div 256) % 256, (u \div 65536) % 256,
         (u \div 16777216) + (IF v < 0 THEN 128 ELSE 0)>>

\* the 8 bytes of an int64 that holds a value of int32 range
Int64Bytes(v) ==
    Int32Bytes(v) \o (IF v < 0 THEN <<255, 255, 255, 255>> ELSE <<0, 0, 0, 0>>)

\* the signed value of 4 bytes
Int32Of(b) ==
    b[1] + 256 * b[2] + 65536 * b[3]
      + 16777216 * (IF b[4] >= 128 THEN b[4] - 256 ELSE b[4])

\* an int64 read from 8 bytes; a value outside int32 range is kept by its
\* sign only (MaxInt32 for large positive, MinInt32 for large negative)
Int64Of(b) ==
    LET lo == Int32Of(SubSeq(b, 1, 4))
        hi == Int32Of(SubSeq(b, 5, 8))
    IN IF (hi = 0 /\ lo >= 0) \/ (hi = -1 /\ lo < 0) THEN lo
       ELSE IF hi >= 0 THEN MaxInt32 ELSE MinInt32

\* the 8 bytes of a by-value Datum word
DatumBytes(d) == Int64Bytes(d.w)

\* the Datum word read from 8 bytes; the high half is kept when it is not
\* the sign extension of the low half
DatumOfBytes(b) ==
    LET lo == Int32Of(SubSeq(b, 1, 4))
        hi == Int32Of(SubSeq(b, 5, 8))
    IN IF (hi = 0 /\ lo >= 0) \/ (hi = -1 /\ lo < 0) THEN [w |-> lo]
       ELSE [w |-> lo, hi |-> hi]

\* is_null = (state->values[i] == (Datum) 0)
IsZeroDatum(d) == d = [w |-> 0]

\* variant: the value bytes follow the null flag also when the flag is 1
SerRecordMutFlagThenValue(typ, d) ==
    IF typlen(typ) \in {-1, -2}
      THEN <<0>> \o Int32Bytes(VARSIZE_ANY(d.p)) \o d.p
    ELSE <<IF IsZeroDatum(d) THEN 1 ELSE 0>> \o DatumBytes(d)

\* one record of serialize_median_state: the null flag, then the value
SerRecord(typ, d) ==
    IF IsZeroDatum(d) THEN <<1>>
    ELSE IF typbyval(typ) /\ typlen(typ) \notin {-1, -2}
      THEN <<0>> \o DatumBytes(d)
    ELSE IF typlen(typ) \in {-1, -2}
      THEN <<0>> \o Int32Bytes(VARSIZE_ANY(d.p))
                 \o SubSeq(d.p, 1, VARSIZE_ANY(d.p))
    ELSE <<0>> \o DatumBytes(d)

RECURSIVE SerRecords(_, _)
SerRecords(typ, s) ==
    IF s = <<>> THEN <<>>
    ELSE SerRecord(typ, Head(s)) \o SerRecords(typ, Tail(s))

\* serialize_median_state of a non-NULL state: the bytea's payload
serialize_median_state(st) ==
    Int32Bytes(st.inputTypeId) \o Int64Bytes(st.count)
      \o Int64Bytes(st.allocated) \o SerRecords(st.inputTypeId, Live(st))
\* the byte at 0-based offset off of the bytea; past its end, whatever the
\* memory behind it holds (fill)
ByteAt(bytes, fill, off) ==
    IF off < Len(bytes) THEN bytes[off + 1] ELSE fill

\* memcpy of n bytes from offset off
ReadBytes(bytes, fill, off, n) ==
    [j \in 1..n |-> ByteAt(bytes, fill, off + j - 1)]

\* palloc raises "invalid memory alloc request size" for a request that is
\* negative or above MaxAllocSize (0x3fffffff bytes)
AllocOk(nbytes) == nbytes >= 0 /\ nbytes <= 1073741823
AllocError == "invalid memory alloc request size"
CacheLookupError == "cache lookup failed for type"

\* state->values[i] = d (i 0-based): inside the allocation the slot is
\* written, outside it the write lands behind the array
StoreSlot(r, i, alloc, d, p) ==
    [r EXCEPT !.values = IF i < alloc THEN [@ EXCEPT ![i + 1] = d] ELSE @,
              !.oobWrite = @ \/ i >= alloc,
              !.p = p]

\* the record loop of deserialize_median_state from record i on; r carries
\* the read position p, the values array and what went wrong so far
RECURSIVE DeserLoop(_, _, _, _, _, _, _)
DeserLoop(typ, bytes, fill, i, count, alloc, r) ==
    IF i >= count \/ r.msg # "" THEN r
    ELSE
      LET null_flag == ByteAt(bytes, fill, r.p)
          p1 == r.p + 1
          is_varlena == typlen(typ) \in {-1, -2}
      IN IF null_flag # 0
           THEN DeserLoop(typ, bytes, fill, i + 1, count, alloc,
                          StoreSlot(r, i, alloc, [w |-> 0], p1))
         ELSE IF is_varlena
           THEN LET data_length ==
                      Int32Of(ReadBytes(bytes, fill, p1, SizeofInt32))
                    p2 == p1 + SizeofInt32
                IN IF ~AllocOk(data_length)
                     THEN [r EXCEPT !.msg = AllocError, !.p = p2]
                     ELSE DeserLoop(typ, bytes, fill, i + 1, count, alloc,
                            StoreSlot(r, i, alloc,
                              [p |-> ReadBytes(bytes, fill, p2, data_length)],
                              p2 + data_length))
         ELSE DeserLoop(typ, bytes, fill, i + 1, count, alloc,
                StoreSlot(r, i, alloc,
                  DatumOfBytes(ReadBytes(bytes, fill, p1, SizeofDatum)),
                  p1 + SizeofDatum))

\* deserialize_median_state of a non-NULL bytea whose payload is bytes.
\* finfoLoaded: whether this backend's type cache entry already carries
\* cmp_proc_finfo (lookup_type_cache is asked for TYPECACHE_CMP_PROC only).
\* The result: msg "" and the state st when it returns, else the error
\* raised; nread, the number of payload bytes read; oobWrite, whether a
\* value was stored behind the values array.
deserialize_median_state(bytes, fill, finfoLoaded) ==
    LET typ == Int32Of(ReadBytes(bytes, fill, 0, SizeofOid))
        count == Int64Of(ReadBytes(bytes, fill, SizeofOid, SizeofInt64))
        alloc == Int64Of(ReadBytes(bytes, fill, SizeofOid + SizeofInt64,
                                   SizeofInt64))
        hdr == SizeofOid + SizeofInt64 + SizeofInt64
        r0 == [msg |-> "", p |-> hdr, oobWrite |-> FALSE, values |-> <<>>]
    IN IF alloc < 0 \/ alloc > 1073741823 \div SizeofDatum
         THEN [msg |-> AllocError, st |-> NULL, nread |-> hdr,
               oobWrite |-> FALSE]
       ELSE IF ~KnownType(typ)
         THEN [msg |-> CacheLookupError, st |-> NULL, nread |-> hdr,
               oobWrite |-> FALSE]
       ELSE
         LET r == DeserLoop(typ, bytes, fill, 0, count, alloc,
                            [r0 EXCEPT !.values = [i \in 1..alloc |-> Uninit]])
         IN IF r.msg # ""
              THEN [msg |-> r.msg, st |-> NULL, nread |-> r.p,
                    oobWrite |-> r.oobWrite]
              ELSE [msg |-> "",
                    st |-> [inputTypeId |-> typ,
                            count |-> count,
                            allocated |-> alloc,
                            values |-> r.values,
                            values_shared |-> FALSE,
                            typentry |-> [cmp_proc_finfo |->
                                            finfoLoaded /\ HasCmpProc(typ)]],
                    nread |-> r.p,
                    oobWrite |-> r.oobWrite]
\* ------------------------------------------------------------------ combine
\* variant: the copy path copies one value too few and the replay loop is
\* missing
CombineMutDropLast(state1, st2) ==
    IF st2 = NULL THEN state1
    ELSE IF state1 = NULL THEN [st2 EXCEPT !.count = IF @ > 0 THEN @ - 1 ELSE @]
    ELSE state1

RECURSIVE AppendAll(_, _)
AppendAll(st, s) ==
    IF s = <<>> THEN st
    ELSE AppendAll(add_input_element_median_state(st, Head(s)), Tail(s))

\* variant: the copy path stores the source's values pointer instead of
\* copying the values into an array of its own
CombineMutShareValues(state1, st2) ==
    IF st2 = NULL THEN state1
    ELSE IF state1 = NULL THEN [st2 EXCEPT !.values_shared = TRUE]
    ELSE AppendAll(state1, Live(st2))

\* variant: the replay loop runs to i <= count and appends the slot behind
\* the source's last value as well
CombineMutLoopLE(state1, st2) ==
    IF st2 = NULL THEN state1
    ELSE IF state1 = NULL
      THEN [inputTypeId |-> st2.inputTypeId,
            count |-> st2.count,
            allocated |-> st2.allocated,
            values |-> [i \in 1..st2.allocated |->
                          IF i <= st2.count THEN st2.values[i] ELSE Uninit],
            values_shared |-> FALSE,
            typentry |-> st2.typentry]
    ELSE AppendAll(state1, SubSeq(st2.values, 1, st2.count + 1))

\* combine_median_state(state1, state2): the state it returns
combine_median_state(state1, st2) ==
    IF st2 = NULL THEN state1
    ELSE IF state1 = NULL
      THEN [inputTypeId |-> st2.inputTypeId,
            count |-> st2.count,
            allocated |-> st2.allocated,
            values |-> [i \in 1..st2.allocated |->
                          IF i <= st2.count THEN st2.values[i] ELSE Uninit],
            values_shared |-> FALSE,
            typentry |-> st2.typentry]
    ELSE AppendAll(state1, Live(st2))

\* ------------------------------------------------------------------- state
VARIABLES
    argtype,    \* get_fn_expr_argtype: the aggregate's input type
    state,      \* the transition state of the aggregate (NULL before init)
    state2,     \* a second partial state, the combine function's source
    buf,        \* the bytea in transport, [b |-> its bytes] (NULL when none)
    decoded,    \* what deserialize_median_state made of buf (NULL when none)
    res,        \* outcome of the last call
    op1,        \* the last call,
    arg1,       \*   its value argument
    pre1,       \*   and the state it was given
    win,        \* the state before a transfn(x), kept over one mtransfn(x)
    hist,       \* how state was built: "adds", "merged", "mixed" or, from
                \*   workers' partial states alone, "parallel"
    inputs,     \* the values state received while hist is not "mixed"
    inputs2,    \* the values state2 received
    tamper,     \* what happened to buf in transport
    window      \* [bag |-> how often each value was added to state and not
                \*   yet removed], while the calls so far are transfn,
                \*   finalfn and mtransfn of values added and not yet
                \*   removed, all on state (NULL afterwards)

vars == <<argtype, state, state2, buf, decoded, res, op1, arg1, pre1, win,
          hist, inputs, inputs2, tamper, window>>

Int4Vals == {[w |-> -3], [w |-> 0], [w |-> 2], [w |-> MaxInt32]}
TextVals == {[p |-> <<3>>], [p |-> <<5, 97>>]}
ArgVals(typ) == IF typ = TEXTOID THEN TextVals ELSE Int4Vals
ArgTypes == {INT4OID, TEXTOID, XIDOID}
\* the values the codec's specification adds and removes: a negative word
\* and the zero word; an empty and a one-character text
CodecVals(typ) ==
    IF typ = TEXTOID THEN TextVals ELSE {[w |-> -3], [w |-> 0]}
\* the values the combine source receives
SrcVals(typ) ==
    IF typ = TEXTOID THEN {[p |-> <<5, 97>>]}
    ELSE {[w |-> 0], [w |-> MaxInt32]}

Ok(kind) == [kind |-> kind]
Err(msg) == [kind |-> "error", msg |-> msg]
NoWin == [x |-> NULL, e |-> NULL, closed |-> FALSE]
\* the window of values after v was added to it (n = 1) or removed from it
\* (n = -1); removing a value it does not hold ends the bookkeeping
WindowPlus(w, v, n) ==
    IF w = NULL \/ w.bag[v] + n < 0 THEN NULL
    ELSE [bag |-> [w.bag EXCEPT ![v] = @ + n]]

Init ==
    /\ argtype \in ArgTypes
    /\ state = NULL
    /\ state2 = NULL
    /\ buf = NULL
    /\ decoded = NULL
    /\ res = Ok("none")
    /\ op1 = "none"
    /\ arg1 = NULL
    /\ pre1 = NULL
    /\ win = NoWin
    /\ hist = "adds"
    /\ inputs = <<>>
    /\ inputs2 = <<>>
    /\ tamper = "none"
    /\ window = [bag |-> [v \in ArgVals(argtype) |-> 0]]

\* the combine source after a call that left the aggregate's state as st:
\* what the call stored through a values pointer the two states share is
\* the source's as well
SourceAfter(src, st) ==
    IF src # NULL /\ st # NULL /\ st.values_shared
      THEN [src EXCEPT !.values =
              [i \in 1..Len(@) |-> IF i <= Len(st.values) THEN st.values[i]
                                   ELSE @[i]]]
    ELSE src

\* a call's outcome: what it returns or raises (res) and the state the
\* caller holds afterwards (st)
Out(r, st) == [res |-> r, st |-> st]

\* median_transfn(st, v) for an aggregate over typ; v = NULL is a null input.
\* init_median_state raises from get_type_comp_method before it returns.
median_transfn(st, typ, v) ==
    IF st = NULL /\ ~get_type_comp_method(typ)
      THEN Out(Err(TypeResolutionError), st)
    ELSE
      LET s0 == IF st = NULL THEN init_median_state(typ) ELSE st
      IN Out(Ok("state"),
             IF v # NULL THEN add_input_element_median_state(s0, v) ELSE s0)

\* variant: a NULL state is initialised as in median_transfn instead of
\* raising
MtransfnMutInit(st, v) ==
    LET s0 == IF st = NULL THEN init_median_state(INT4OID) ELSE st
    IN Out(Ok("state"),
           IF v # NULL THEN discard_element_median_state(s0, v) ELSE s0)

\* median_mtransfn(st, v)
median_mtransfn(st, v) ==
    IF st = NULL THEN Out(Err(InvalidStateError), st)
    ELSE Out(Ok("state"),
             IF v # NULL THEN discard_element_median_state(st, v) ELSE st)

\* variant: only the NULL state is checked, not count == 0, so the first
\* slot is returned whatever it holds
FinalfnMutNoCountCheck(st) ==
    IF st = NULL THEN Out(Ok("null"), st)
    ELSE Out([kind |-> "datum", val |-> st.values[1]], st)

\* median_finalfn(st): NULL for no state or no values, else the median of
\* the values, which it sorts in place. Sorting two or more values calls
\* through typentry->cmp_proc_finfo; with no function loaded there the call
\* goes through a null fn_addr and the backend crashes.
median_finalfn(st) ==
    IF st = NULL \/ st.count = 0 THEN Out(Ok("null"), st)
    ELSE IF st.count >= 2 /\ ~st.typentry.cmp_proc_finfo
      THEN Out(Ok("crash"), st)
    ELSE LET sorted == SortedState(st)
         IN Out([kind |-> "datum", val |-> calculate_median(sorted)], sorted)

\* median_transfn on the aggregate's state, while it holds fewer than cap
\* values
TransfnUpTo(v, cap) ==
    /\ state # NULL /\ v # NULL => state.count < cap
    /\ LET o == median_transfn(state, argtype, v)
       IN /\ state' = o.st
          /\ res' = o.res
          /\ win' = IF o.res.kind # "error" /\ v # NULL
                      THEN [x |-> v, e |-> state, closed |-> FALSE]
                      ELSE NoWin
          /\ hist' = IF hist = "merged" /\ v # NULL THEN "mixed" ELSE hist
          /\ inputs' = IF hist' = "mixed" THEN <<>>
                       ELSE IF o.res.kind # "error" /\ v # NULL
                         THEN Append(inputs, v)
                       ELSE inputs
          /\ window' = IF o.res.kind # "error" /\ v # NULL
                         THEN WindowPlus(window, v, 1) ELSE window
    /\ op1' = "transfn" /\ arg1' = v /\ pre1' = state
    /\ buf' = NULL /\ decoded' = NULL /\ tamper' = "none"
    /\ state2' = SourceAfter(state2, state')
    /\ UNCHANGED <<argtype, inputs2>>

Transfn(v) == TransfnUpTo(v, MaxAdds)

\* median_mtransfn on the aggregate's state
Mtransfn(v) ==
    /\ LET o == median_mtransfn(state, v)
       IN /\ state' = o.st
          /\ res' = o.res
          /\ win' = IF o.res.kind # "error" /\ op1 = "transfn" /\ v # NULL
                       /\ win.x = v
                      THEN [win EXCEPT !.closed = TRUE]
                      ELSE NoWin
          /\ hist' = IF o.res.kind # "error" /\ v # NULL THEN "mixed" ELSE hist
          /\ inputs' = IF hist' = "mixed" THEN <<>> ELSE inputs
          /\ window' = IF o.res.kind # "error" /\ v # NULL
                         THEN WindowPlus(window, v, -1) ELSE window
    /\ op1' = "mtransfn" /\ arg1' = v /\ pre1' = state
    /\ buf' = NULL /\ decoded' = NULL /\ tamper' = "none"
    /\ state2' = SourceAfter(state2, state')
    /\ UNCHANGED <<argtype, inputs2>>

\* median_finalfn on the aggregate's state
Finalfn ==
    /\ LET o == median_finalfn(state)
       IN /\ state' = o.st
          /\ res' = o.res
    /\ op1' = "finalfn" /\ arg1' = NULL /\ pre1' = state
    /\ win' = NoWin
    /\ buf' = NULL /\ decoded' = NULL /\ tamper' = "none"
    /\ state2' = SourceAfter(state2, state')
    /\ UNCHANGED <<argtype, hist, inputs, inputs2, window>>

Next ==
    \/ \E v \in ArgVals(argtype) \cup {NULL} : Transfn(v)
    \/ \E v \in ArgVals(argtype) \cup {NULL} : Mtransfn(v)
    \/ Finalfn

Spec == Init /\ [][Next]_vars
\* median_transfn in another worker, on the partial state that is later the
\* combine function's second argument, while it holds fewer than cap values
Transfn2UpTo(v, cap) ==
    /\ state2 # NULL /\ v # NULL => state2.count < cap
    /\ LET o == median_transfn(state2, argtype, v)
       IN /\ state2' = o.st
          /\ res' = o.res
          /\ inputs2' = IF o.res.kind # "error" /\ v # NULL
                          THEN Append(inputs2, v) ELSE inputs2
    /\ op1' = "transfn2" /\ arg1' = v /\ pre1' = state2
    /\ win' = NoWin
    /\ window' = NULL
    /\ UNCHANGED <<argtype, state, buf, decoded, hist, inputs, tamper>>

Transfn2(v) == Transfn2UpTo(v, MaxSrcAdds)

\* combine_median_state(state, state2); the result becomes the aggregate's
\* state, which holds no more than cap values
CombineUpTo(cap) ==
    /\ state # NULL /\ state2 # NULL
         => state.count + state2.count <= cap
    /\ state' = combine_median_state(state, state2)
    /\ res' = Ok("state")
    /\ op1' = "combine" /\ arg1' = NULL /\ pre1' = state
    /\ win' = NoWin
    /\ hist' = IF hist = "adds" THEN "merged" ELSE "mixed"
    /\ inputs' = IF hist' = "merged" THEN inputs \o inputs2 ELSE <<>>
    /\ window' = NULL
    /\ buf' = NULL /\ decoded' = NULL /\ tamper' = "none"
    /\ state2' = SourceAfter(state2, state')
    /\ UNCHANGED <<argtype, inputs2>>

Combine == CombineUpTo(MaxCount)

NextMerge ==
    \/ \E v \in ArgVals(argtype) \cup {NULL} : Transfn(v)
    \/ \E v \in SrcVals(argtype) \cup {NULL} : Transfn2(v)
    \/ Combine
    \/ Finalfn

SpecMerge == Init /\ [][NextMerge]_vars

\* serialize_median_state(state): the bytea handed to the transport
Serialize ==
    /\ buf' = IF state = NULL THEN NULL
              ELSE [b |-> serialize_median_state(state)]
    /\ res' = IF state = NULL THEN Ok("null") ELSE Ok("bytes")
    /\ op1' = "serialize" /\ arg1' = NULL /\ pre1' = state
    /\ decoded' = NULL /\ tamper' = "none"
    /\ win' = NoWin
    /\ window' = NULL
    /\ UNCHANGED <<argtype, state, state2, hist, inputs, inputs2>>

\* what the memory behind a bytea may hold where a read runs past its end
OobFill == {0, 255}

\* deserialize_median_state(buf) in a backend whose type cache entry has
\* (loaded) or has not yet cmp_proc_finfo filled in
Deserialize(fill, loaded) ==
    /\ LET o == IF buf = NULL THEN NULL
                ELSE deserialize_median_state(buf.b, fill, loaded)
       IN /\ decoded' = o
          /\ res' = IF buf = NULL THEN Ok("null")
                    ELSE IF o.msg = "" THEN Ok("state")
                    ELSE Err(o.msg)
    /\ op1' = "deserialize" /\ arg1' = NULL /\ pre1' = NULL
    /\ win' = NoWin
    /\ window' = NULL
    /\ UNCHANGED <<argtype, state, state2, buf, hist, inputs, inputs2,
                   tamper>>

NextCodec ==
    \/ \E v \in CodecVals(argtype) \cup {NULL} : Transfn(v)
    \/ \E v \in CodecVals(argtype) \cup {NULL} : Mtransfn(v)
    \/ \E v \in SrcVals(argtype) : Transfn2(v)
    \/ Combine
    \/ Finalfn
    \/ Serialize
    \/ \E fill \in OobFill, loaded \in BOOLEAN : Deserialize(fill, loaded)

SpecCodec == Init /\ [][NextCodec]_vars

\* --- states whose array has to grow: one value per type, added often
GrowVals(typ) == IF typ = TEXTOID THEN {[p |-> <<3>>]} ELSE {[w |-> 2]}

NextGrow ==
    \/ \E v \in GrowVals(argtype) \cup {NULL} : TransfnUpTo(v, MaxGrowAdds)
    \/ \E v \in GrowVals(argtype) : Mtransfn(v)
    \/ Finalfn
    \/ \E v \in GrowVals(argtype) : Transfn2UpTo(v, MaxGrowSrc)
    \/ CombineUpTo(MaxGrowAdds)
    \/ Serialize
    \/ \E fill \in OobFill, loaded \in BOOLEAN : Deserialize(fill, loaded)

SpecGrow == Init /\ [][NextGrow]_vars

\* --- the bytea argument of deserialize_median_state as the caller may hand
\* --- it over: cut short, or with a header or length field that does not
\* --- describe the records that follow

\* the bytea lost its tail: only its first k bytes arrive
Truncate(k) ==
    /\ buf # NULL /\ tamper = "none"
    /\ k < Len(buf.b)
    /\ buf' = [b |-> SubSeq(buf.b, 1, k)]
    /\ tamper' = "truncated"
    /\ decoded' = NULL
    /\ UNCHANGED <<argtype, state, state2, res, op1, arg1, pre1, win, hist,
                   inputs, inputs2, window>>

\* bytes replaced from 0-based offset off on
Patch(bytes, off, new) ==
    [j \in 1..Len(bytes) |->
       IF j > off /\ j <= off + Len(new) THEN new[j - off] ELSE bytes[j]]

\* the count field announces c records: more than follow (count + 1), or
\* more than the capacity field (allocated + 1)
PatchCount(c) ==
    /\ buf # NULL /\ tamper = "none"
    /\ c \in {state.count + 1, state.allocated + 1}
    /\ buf' = [b |-> Patch(buf.b, SizeofOid, Int64Bytes(c))]
    /\ tamper' = "count"
    /\ decoded' = NULL
    /\ UNCHANGED <<argtype, state, state2, res, op1, arg1, pre1, win, hist,
                   inputs, inputs2, window>>

\* the length field of the first record of a varlena state announces more
\* bytes than the bytea has left
PatchVarLen(extra) ==
    /\ buf # NULL /\ tamper = "none"
    /\ state.inputTypeId = TEXTOID /\ state.count >= 1
    /\ LET hdr == SizeofOid + SizeofInt64 + SizeofInt64
       IN buf' = [b |-> Patch(buf.b, hdr + 1,
                             Int32Bytes(Len(buf.b) - hdr + extra))]
    /\ tamper' = "varlen"
    /\ decoded' = NULL
    /\ UNCHANGED <<argtype, state, state2, res, op1, arg1, pre1, win, hist,
                   inputs, inputs2, window>>

\* a well-formed bytea of a by-value state whose type id names xid, a
\* 4-byte by-value type without a comparison procedure
PatchType ==
    /\ buf # NULL /\ tamper = "none"
    /\ typbyval(state.inputTypeId)
    /\ buf' = [b |-> Patch(buf.b, 0, Int32Bytes(XIDOID))]
    /\ tamper' = "type"
    /\ decoded' = NULL
    /\ UNCHANGED <<argtype, state, state2, res, op1, arg1, pre1, win, hist,
                   inputs, inputs2, window>>

NextCorrupt ==
    \/ \E v \in ArgVals(argtype) \cup {NULL} : Transfn(v)
    \/ Serialize
    \/ \E k \in 0..(SizeofOid + 2 * SizeofInt64 + MaxAdds * 9) : Truncate(k)
    \/ \E c \in 1..(2 * InitAllocated + 1) : PatchCount(c)
    \/ \E extra \in 1..2 : PatchVarLen(extra)
    \/ PatchType
    \/ \E fill \in OobFill, loaded \in BOOLEAN : Deserialize(fill, loaded)

SpecCorrupt == Init /\ [][NextCorrupt]_vars

\* --- parallel aggregation: each worker builds a partial state (state2),
\* --- serializes it, and the leader deserializes it and combines it into
\* --- its own state, which starts NULL; workers are taken one at a time

\* serialize_median_state(state2) in the worker; a worker that saw no row
\* has no state and hands over NULL
SerializeWorker ==
    /\ op1 \in {"none", "transfn2", "combine"}
    /\ buf' = IF state2 = NULL THEN NULL
              ELSE [b |-> serialize_median_state(state2)]
    /\ res' = IF state2 = NULL THEN Ok("null") ELSE Ok("bytes")
    /\ op1' = "serialize2" /\ arg1' = NULL /\ pre1' = state2
    /\ decoded' = NULL /\ tamper' = "none"
    /\ win' = NoWin
    /\ window' = NULL
    /\ UNCHANGED <<argtype, state, state2, hist, inputs, inputs2>>

\* deserialize_median_state in the leader, of what the worker handed over
DeserializeWorker(fill, loaded) ==
    /\ op1 = "serialize2"
    /\ Deserialize(fill, loaded)

\* combine_median_state(state, deserialized partial state) in the leader;
\* the worker is done and the next one starts without a state
CombineWorker ==
    /\ op1 = "deserialize"
    /\ decoded # NULL => decoded.msg = ""
    /\ LET src == IF decoded = NULL THEN NULL ELSE decoded.st
       IN /\ state # NULL /\ src # NULL
               => state.count + src.count <= MaxCount
          /\ state' = combine_median_state(state, src)
    /\ res' = Ok("state")
    /\ op1' = "combine" /\ arg1' = NULL /\ pre1' = state
    /\ win' = NoWin
    /\ hist' = "parallel"
    /\ inputs' = inputs \o inputs2
    /\ window' = NULL
    /\ state2' = NULL /\ inputs2' = <<>>
    /\ buf' = NULL /\ decoded' = NULL /\ tamper' = "none"
    /\ UNCHANGED argtype

NextParallel ==
    \/ \E v \in ArgVals(argtype) \cup {NULL} : Transfn2(v)
    \/ SerializeWorker
    \/ \E fill \in OobFill, loaded \in BOOLEAN :
         DeserializeWorker(fill, loaded)
    \/ CombineWorker
    \/ Finalfn

SpecParallel == Init /\ [][NextParallel]_vars

\* ------------------------------------------------------- reference median
\* the integers of a sequence of by-value datums
RECURSIVE RefInsert(_, _)
RefInsert(x, s) ==
    IF s = <<>> THEN <<x>>
    ELSE IF x <= Head(s) THEN <<x>> \o s
    ELSE <<Head(s)>> \o RefInsert(x, Tail(s))

RECURSIVE RefSort(_)
RefSort(s) ==
    IF s = <<>> THEN <<>> ELSE RefInsert(Head(s).w, RefSort(Tail(s)))

\* the quotient of the exact sum l + r by 2, truncated toward zero,
\* computed from the halves so that no intermediate leaves int32
ExactAvg(l, r) ==
    LET h == (l \div 2) + (r \div 2)
        odd == (l % 2) + (r % 2)
    IN IF odd = 2 THEN h + 1
       ELSE IF odd = 1 /\ h < 0 THEN h + 1
       ELSE h

RefMedian(s) ==
    LET sorted == RefSort(s)
        n == Len(s)
    IN IF n % 2 = 1 THEN sorted[(n \div 2) + 1]
       ELSE ExactAvg(sorted[n \div 2], sorted[(n \div 2) + 1])

\* ------------------------------------------------------------------ claims

\* C1: for a non-empty sequence of int4 values added one by one to an absent
\* state, median_finalfn returns the reference median: the middle element
\* of the sorted sequence, or the exact sum of the two middle elements
\* divided by 2 with truncation.
C1_FinalIsReferenceMedian ==
    (op1 = "finalfn" /\ hist = "adds" /\ argtype = INT4OID /\ inputs # <<>>)
      => res = [kind |-> "datum", val |-> [w |-> RefMedian(inputs)]]

\* C2: median_mtransfn(x) right after median_transfn(x) on a state e gives
\* a state with e's count, e's final result and e's elements in e's order.
C2_AddThenRemoveRestores ==
    (win.closed /\ win.e # NULL)
      => /\ state.count = win.e.count
         /\ median_finalfn(state).res = median_finalfn(win.e).res
         /\ Live(state) = Live(win.e)

\* C6: median_mtransfn with a value that no live element equals raises no
\* error and leaves count, allocated and the live elements as they were.
C6_RemoveAbsentIsNoOp ==
    (op1 = "mtransfn" /\ pre1 # NULL /\ arg1 # NULL
       /\ \A i \in 1..pre1.count : pre1.values[i] # arg1)
      => /\ res = Ok("state")
         /\ state.count = pre1.count
         /\ state.allocated = pre1.allocated
         /\ Live(state) = Live(pre1)

\* C6 witness: a value absent from a non-empty buffer was removed
C6_Witness ==
    /\ op1 = "mtransfn" /\ pre1 # NULL /\ arg1 # NULL
    /\ pre1.count >= 2
    /\ \A i \in 1..pre1.count : pre1.values[i] # arg1

\* C7: median_finalfn returns NULL, and no error or value, whenever it is
\* given no state or a state whose count is 0.
C7_FinalOfEmptyIsNull ==
    (op1 = "finalfn" /\ (pre1 = NULL \/ pre1.count = 0))
      => res = Ok("null") /\ state = pre1

\* C7 witness: the final function ran on a state that removals emptied
C7_Witness ==
    /\ op1 = "finalfn" /\ pre1 # NULL /\ pre1.count = 0
    /\ hist = "mixed" /\ pre1.values[1] # Uninit
    /\ res = Ok("null")

\* C8: median_mtransfn given no state raises its error and leaves the
\* caller without a state.
C8_RemoveWithoutStateFails ==
    (op1 = "mtransfn" /\ pre1 = NULL)
      => res = Err(InvalidStateError) /\ state = NULL

\* C8 witness: the inverse transition function was called with a NULL state
C8_Witness ==
    op1 = "mtransfn" /\ pre1 = NULL /\ arg1 # NULL /\ res.kind = "error"

\* C10: the first median_transfn of an aggregate over a type that has no
\* comparison procedure raises the comparison-function error and the
\* caller's state stays NULL.
C10_InitWithoutCmpFails ==
    (op1 = "transfn" /\ pre1 = NULL /\ argtype = XIDOID)
      => res = Err(TypeResolutionError) /\ state = NULL

\* C10 witness: a first transition call on xid input has been made
C10_Witness ==
    /\ op1 = "transfn" /\ pre1 = NULL /\ argtype = XIDOID /\ arg1 # NULL
    /\ res = Err(TypeResolutionError)
\* the state that adding the values of s one by one to no state gives
RECURSIVE EngineFrom(_, _, _)
EngineFrom(st, typ, s) ==
    IF s = <<>> THEN st
    ELSE EngineFrom(median_transfn(st, typ, Head(s)).st, typ, Tail(s))

EngineOf(typ, s) == EngineFrom(NULL, typ, s)

\* C3: the final result of combine(engineOf(A), engineOf(B)) is the final
\* result of the state that received every value of A and of B through the
\* transition function, whether the target was NULL (copy) or held values
\* (replay), and whether or not the source was NULL.
C3_MergeDistributes ==
    (op1 = "finalfn" /\ hist = "merged")
      => res = median_finalfn(EngineOf(argtype, inputs)).res

\* C3 witness: the final function ran after a combine that replayed a
\* non-empty source into a non-empty target
C3_Witness ==
    /\ op1 = "finalfn" /\ hist = "merged" /\ res.kind = "datum"
    /\ inputs2 # <<>> /\ Len(inputs) > Len(inputs2)
    /\ pre1.count = Len(inputs)

\* the copy path of combine has been taken and finalized as well
C3_WitnessCopy ==
    /\ op1 = "finalfn" /\ hist = "merged" /\ res.kind = "datum"
    /\ inputs2 # <<>> /\ inputs = inputs2
\* C4: deserialize(serialize(e)) has e's type id, count, allocated and, at
\* every index below count, e's value, for every state e that transition,
\* inverse transition, combine and final calls can build.
C4_RoundTrip ==
    (op1 = "deserialize" /\ buf # NULL /\ tamper = "none")
      => /\ decoded.msg = ""
         /\ decoded.st.inputTypeId = state.inputTypeId
         /\ decoded.st.count = state.count
         /\ decoded.st.allocated = state.allocated
         /\ \A i \in 1..state.count :
              decoded.st.values[i] = state.values[i]

\* C4 witness: a state that removals shaped and that holds a zero word
\* next to other values went through serialize and deserialize
C4_Witness ==
    /\ op1 = "deserialize" /\ buf # NULL /\ tamper = "none"
    /\ hist = "mixed" /\ state.count >= 2
    /\ \E i, j \in 1..state.count :
         state.values[i] = [w |-> 0] /\ state.values[j] # [w |-> 0]
    /\ decoded.msg = ""

\* the error the byte format's reader is to raise for bytes that do not
\* hold a whole state; deserialize_median_state has no ereport of its own
CorruptDataError == "corrupt serialized median state"

\* C5: deserialize_median_state given a bytea that is cut short or whose
\* count or length field announces more than it holds raises a corrupt-data
\* error, reads no byte past the bytea and stores no value behind the
\* allocated array.
C5_CorruptInputRejected ==
    (op1 = "deserialize" /\ buf # NULL /\ decoded # NULL
       /\ tamper \in {"truncated", "count", "varlen"})
      => /\ decoded.msg = CorruptDataError
         /\ decoded.nread <= Len(buf.b)
         /\ ~decoded.oobWrite

\* C9: deserialize_median_state given a well-formed bytea whose type id has
\* no comparison procedure raises the comparison-function error of
\* get_type_comp_method and returns no state.
C9_DecodeWithoutCmpFails ==
    (op1 = "deserialize" /\ buf # NULL /\ decoded # NULL /\ tamper = "type")
      => decoded.msg = TypeResolutionError /\ decoded.st = NULL

\* the sequence s without its k-th element
WithoutIndex(s, k) == SubSeq(s, 1, k - 1) \o SubSeq(s, k + 1, Len(s))

\* C11: median_mtransfn(v) on a state that holds an element equal to v, k
\* being the smallest index of one, decreases count by exactly 1 and leaves
\* the elements before k followed by the elements after k, in their order.
C11_RemoveDeletesFirstMatch ==
    (op1 = "mtransfn" /\ pre1 # NULL /\ arg1 # NULL
       /\ \E i \in 1..pre1.count : pre1.values[i] = arg1)
      => LET k == CHOOSE i \in 1..pre1.count :
                    /\ pre1.values[i] = arg1
                    /\ \A j \in 1..(i - 1) : pre1.values[j] # arg1
         IN /\ state.count = pre1.count - 1
            /\ Live(state) = WithoutIndex(Live(pre1), k)

\* how often v occurs in the sequence s
CountIn(s, v) == Cardinality({i \in 1..Len(s) : s[i] = v})

\* a sequence that holds every value of vals as often as bag says
RECURSIVE BagSeq(_, _)
BagSeq(bag, vals) ==
    IF vals = {} THEN <<>>
    ELSE LET v == CHOOSE x \in vals : TRUE
         IN [i \in 1..bag[v] |-> v] \o BagSeq(bag, vals \ {v})

\* C12: after any interleaving of median_transfn, median_mtransfn of a
\* value that was added and not yet removed, and median_finalfn, the live
\* elements are, as a multiset, the values added and not yet removed, and
\* every median_finalfn returns the reference median of those values.
C12_BufferIsWindow ==
    (window # NULL /\ state # NULL)
      => /\ \A v \in ArgVals(argtype) :
              CountIn(Live(state), v) = window.bag[v]
         /\ (op1 = "finalfn" /\ argtype = INT4OID /\ pre1.count > 0)
              => res = [kind |-> "datum",
                        val |-> [w |-> RefMedian(BagSeq(window.bag,
                                                        Int4Vals))]]

\* the smallest InitAllocated * 2^j, from c on, that is greater than n
RECURSIVE CapAbove(_, _)
CapAbove(c, n) == IF c > n THEN c ELSE CapAbove(2 * c, n)

\* the smallest InitAllocated * 2^j, from c on, that is n or more
RECURSIVE CapAtLeast(_, _)
CapAtLeast(c, n) == IF c >= n THEN c ELSE CapAtLeast(2 * c, n)

\* C13 as stated: allocated is doubled only when count after the append
\* would pass it, so a state that received n values and nothing else has
\* the smallest 8 * 2^j >= n allocated (8 after 8 appends, 16 on the 9th).
C13_GrowsWhenFull ==
    /\ (hist = "adds" /\ state # NULL)
         => state.allocated = CapAtLeast(InitAllocated, Len(inputs))
    /\ (op1 = "transfn" /\ pre1 # NULL /\ arg1 # NULL)
         => state.allocated = IF pre1.count + 1 > pre1.allocated
                                THEN 2 * pre1.allocated
                                ELSE pre1.allocated

\* C13 amended: allocated is 8 at init and an append doubles it exactly
\* when count after the append reaches it, so a state that received n
\* values and nothing else has the smallest 8 * 2^j > n allocated (16 from
\* the 8th append on, 32 from the 16th).
C13_GrowsWhenReached ==
    /\ (op1 = "transfn" /\ pre1 = NULL /\ res = Ok("state") /\ arg1 = NULL)
         => state.allocated = InitAllocated
    /\ (hist = "adds" /\ state # NULL)
         => /\ state.count = Len(inputs)
            /\ state.allocated = CapAbove(InitAllocated, Len(inputs))
    /\ (op1 = "transfn" /\ pre1 # NULL /\ arg1 # NULL)
         => state.allocated = IF pre1.count + 1 >= pre1.allocated
                                THEN 2 * pre1.allocated
                                ELSE pre1.allocated

\* C13 witness: the 16th append has doubled the array a second time
C13_Witness ==
    /\ op1 = "transfn" /\ hist = "adds" /\ arg1 # NULL
    /\ Len(inputs) = 2 * InitAllocated
    /\ pre1.allocated = 2 * InitAllocated
    /\ state.allocated = 4 * InitAllocated

\* count and the values array of st fit allocated
WithinAllocated(st) ==
    /\ 0 <= st.count /\ st.count <= st.allocated
    /\ Len(st.values) = st.allocated

\* C14: in every state that transition, inverse transition, combine (copy
\* and replay), final and deserialize(serialize(.)) calls reach,
\* 0 <= count <= allocated, every value an append writes lands inside the
\* allocated array, and no call leaves a state with less allocated than it
\* was given.
C14_CountWithinCapacity ==
    /\ state # NULL => WithinAllocated(state)
    /\ state2 # NULL => WithinAllocated(state2)
    /\ (decoded # NULL /\ decoded.st # NULL)
         => /\ WithinAllocated(decoded.st)
            /\ decoded.st.allocated >= state.allocated
            /\ ~decoded.oobWrite
    /\ (op1 = "transfn" /\ arg1 # NULL /\ res = Ok("state"))
         => /\ state.count <= Len(state.values)
            /\ state.values[state.count] = arg1
    /\ (op1 = "transfn2" /\ arg1 # NULL /\ res = Ok("state"))
         => /\ state2.count <= Len(state2.values)
            /\ state2.values[state2.count] = arg1
    /\ (op1 = "combine" /\ pre1 # NULL /\ state2 # NULL)
         => /\ pre1.count + state2.count <= Len(state.values)
            /\ \A i \in 1..state2.count :
                 state.values[pre1.count + i] = state2.values[i]
    /\ (op1 \in {"transfn", "mtransfn", "finalfn", "combine"}
          /\ pre1 # NULL /\ state # NULL)
         => state.allocated >= pre1.allocated
    /\ (op1 = "transfn2" /\ pre1 # NULL)
         => state2.allocated >= pre1.allocated

\* C14 witness: a combine replayed a source into a target whose array had
\* to be doubled for it, after values had been removed from the target
C14_Witness ==
    /\ op1 = "combine" /\ pre1 # NULL /\ state2 # NULL
    /\ hist = "mixed"
    /\ pre1.allocated = InitAllocated
    /\ state.allocated = 2 * InitAllocated
    /\ state.count = pre1.count + state2.count

\* C15: for int4 input and an even count, median_finalfn returns the exact
\* sum of the two middle values of the sorted elements divided by 2 with
\* truncation toward zero, for every pair of int32 values, also when the
\* sum is not an int32; the result lies between the two middle values.
C15_AverageIsExact ==
    (op1 = "finalfn" /\ argtype = INT4OID /\ pre1 # NULL
       /\ pre1.count > 0 /\ pre1.count % 2 = 0)
      => LET sorted == RefSort(Live(pre1))
             left == sorted[pre1.count \div 2]
             right == sorted[(pre1.count \div 2) + 1]
         IN /\ res.kind = "datum"
            /\ res.val.w = ExactAvg(left, right)
            /\ left <= res.val.w /\ res.val.w <= right

\* C16: median_finalfn changes only the order of the elements (count,
\* allocated and the multiset of live elements stay); in any interleaving
\* of median_transfn and median_finalfn every median_finalfn returns the
\* reference median of all values added so far; and a median_finalfn right
\* after another returns the same result.
C16_FinalOnlyReorders ==
    (op1 = "finalfn" /\ pre1 # NULL)
      => /\ state.count = pre1.count
         /\ state.allocated = pre1.allocated
         /\ \A v \in ArgVals(argtype) :
              CountIn(Live(state), v) = CountIn(Live(pre1), v)
         /\ (hist = "adds" /\ argtype = INT4OID /\ inputs # <<>>)
              => res = [kind |-> "datum", val |-> [w |-> RefMedian(inputs)]]
         /\ median_finalfn(state).res = res

\* C17: serialize_median_state writes one record per live value, in index
\* order; as no live value is a null datum, every record of a by-value
\* state is the null flag 0 followed by the 8 bytes of the value, also for
\* the value 0, so the payload is 20 + count * 9 bytes long.
C17_EveryRecordHasItsValue ==
    (op1 = "serialize" /\ buf # NULL /\ typbyval(state.inputTypeId))
      => LET hdr == SizeofOid + SizeofInt64 + SizeofInt64
             rec == 1 + SizeofDatum
         IN /\ Len(buf.b) = hdr + state.count * rec
            /\ \A i \in 1..state.count :
                 LET at == hdr + (i - 1) * rec
                 IN /\ buf.b[at + 1] = 0
                    /\ SubSeq(buf.b, at + 2, at + rec)
                         = Int64Bytes(state.values[i].w)

\* C18 as stated: combine_median_state(target, source) returns the target it
\* was given, a NULL target included, whenever source is NULL or holds no
\* value.
C18_EmptySourceIsNoOp ==
    (op1 = "combine" /\ (state2 = NULL \/ state2.count = 0))
      => state = pre1

\* C18 amended: combine_median_state(target, source) returns the target it
\* was given whenever source is NULL, or source holds no value and target
\* is not NULL; for a NULL target and a source that holds no value it
\* returns a new state with the source's type and allocated and count 0,
\* for which median_finalfn still returns NULL.
C18_EmptySourceKeepsTarget ==
    (op1 = "combine" /\ (state2 = NULL \/ state2.count = 0))
      => IF state2 = NULL \/ pre1 # NULL THEN state = pre1
         ELSE /\ state # NULL
              /\ state.count = 0
              /\ state.inputTypeId = state2.inputTypeId
              /\ state.allocated = state2.allocated
              /\ median_finalfn(state).res = Ok("null")

\* C18 witness: a source that only null inputs built was combined into a
\* NULL target
C18_Witness ==
    /\ op1 = "combine" /\ pre1 = NULL
    /\ state2 # NULL /\ state2.count = 0 /\ inputs2 = <<>>
    /\ state # NULL

\* C19: however the input values are split among workers, some of which may
\* have none, when every worker's state goes through serialize and
\* deserialize and the deserialized states are combined one at a time, in
\* any order, into a state that starts NULL, median_finalfn of that state
\* returns what it returns for one state that received every value.
C19_ParallelEqualsSerial ==
    (op1 = "finalfn" /\ hist = "parallel")
      => res = median_finalfn(EngineOf(argtype, inputs)).res

\* C20: combine_median_state with a NULL target and a non-NULL source
\* returns a state with the source's type id, count, allocated and live
\* elements; and no combine, on either path, and no later transition,
\* inverse transition or final call on the state it returned changes the
\* source's count, allocated or live elements.
C20_SourceIsLeftAlone ==
    [][/\ (op1' = "combine" /\ state = NULL /\ state2 # NULL)
            => /\ state' # NULL
               /\ state'.inputTypeId = state2.inputTypeId
               /\ state'.count = state2.count
               /\ state'.allocated = state2.allocated
               /\ Live(state') = Live(state2)
       /\ (op1' \in {"combine", "transfn", "mtransfn", "finalfn"}
             /\ state2 # NULL)
            => /\ state2' # NULL
               /\ state2'.count = state2.count
               /\ state2'.allocated = state2.allocated
               /\ Live(state2') = Live(state2)]_vars

\* C20 witness: a source holding two values was copied into a NULL target,
\* and a value has then been removed from the target
C20_Witness ==
    /\ op1 = "mtransfn" /\ argtype = INT4OID
    /\ state2 # NULL /\ state2.count = 2
    /\ pre1 # NULL /\ Live(pre1) = Live(state2)
    /\ \E i \in 1..pre1.count : pre1.values[i] = [w |-> MaxInt32]
    /\ state.count = 1
    /\ Live(state2) = inputs2
====
